---- MODULE Spec2Model ----
(***************************************************************************)
(* A model of the web3 hooks of src/components/Convert/ConvertSteps.js:    *)
(* the contract handle cache (useContract), the balance tracker            *)
(* (useTokenBalance), the price oracle (useBondingCurvePrice) and the      *)
(* transaction flows (useAllowance, useOpenOrder, useClaimOrder).          *)
(*                                                                         *)
(* JavaScript runs these hooks on one event loop: a render with its        *)
(* effects, an event callback, a promise continuation and a timer callback *)
(* each run to completion, so each is one action here.                     *)
(***************************************************************************)
EXTENDS Integers, Sequences, FiniteSets, TLC

\* ------------------------------------------------------------------ values

\* null / undefined of the program; '' is the default explicit address.
Null == "null"

Falsy(x) == x = Null \/ x = ""

\* Connection objects and accounts a wallet can supply.
Providers == {"p1", "p2"}
Accounts == {"u1", "u2"}

\* An address that is no account of the wallet and no known contract.
Stranger == "0xOTHER"

KnownNames ==
  {"TOKEN_ANT", "TOKEN_ANJ", "BANCOR_FORMULA", "BONDING_CURVE_TREASURY",
   "MARKET_MAKER", "FUNDRAISING"}

ContractAddress ==
  [TOKEN_ANT |-> "0xANT", TOKEN_ANJ |-> "0xANJ", BANCOR_FORMULA |-> "0xBANCOR",
   BONDING_CURVE_TREASURY |-> "0xTREASURY", MARKET_MAKER |-> "0xMM",
   FUNDRAISING |-> "0xFUND"]

CacheKeys == {ContractAddress[n] : n \in KnownNames}

\* Interface descriptors a direct caller of useContract may pass.
Abis == {"abiA", "abiB"}

\* The absent handle (useContract's null), shaped like a handle.
NoContract ==
  [address |-> Null, abi |-> Null, signer |-> FALSE, provider |-> Null, serial |-> 0]

MAINNET_CONNECTOR_WEIGHT == 250000
RINKEBY_CONNECTOR_WEIGHT == 33333
RETRY_EVERY == 1000

VARIABLES
  missing,              \* the contract name the configuration lacks, or "none"
  chainId,              \* environment('CHAIN_ID')
  ethersProvider,       \* useWeb3Connect().ethersProvider
  account,              \* useWeb3Connect().account
  contractsCache,       \* the module-level Map, address -> handle
  created,              \* number of EthersContract objects constructed
  ret,                  \* direct useContract calls: the last call, the handle
                        \* it returned, and all handles returned per address
  hook,                 \* the hook the mounted component uses: "balance"
                        \* (useTokenBalance), "price" (useBondingCurvePrice),
                        \* or "none" when no component is mounted
  address,              \* useTokenBalance's explicit address argument
  amount, forwards,     \* useBondingCurvePrice's arguments
  tokenContract, anjContract, bancorContract,   \* handles of the last render
  balance,              \* useTokenBalance's state
  cancelBalanceUpdate,  \* the ref: null, or the cancel closure of the last fetch
  fetches,              \* balanceOf promises in flight
  listeners,            \* Transfer listeners registered by the tracker
  loading, price,       \* useBondingCurvePrice's state
  chains,               \* getSalePrice chains: request in flight or retry timer
  failsLeft,            \* price request failures still to come; -1: any number
  allow, order, claim   \* the running invocation of each transaction flow

connVars == <<ethersProvider, account>>
cacheVars == <<contractsCache, created>>
trackerVars == <<tokenContract, balance, cancelBalanceUpdate, fetches, listeners>>
oracleVars == <<anjContract, bancorContract, loading, price, chains>>
argVars == <<address, amount, forwards>>
txVars == <<allow, order, claim>>
vars ==
  <<missing, chainId, connVars, cacheVars, ret, hook, argVars, trackerVars,
    oracleVars, failsLeft, txVars>>

\* ---------------------------------------------------------------- registry

\* getKnownContract(name): the [address, abi] pair of a configured contract,
\* and no address for a name the configuration does not know.
getKnownContract(name) ==
  IF name \in KnownNames /\ name # missing
    THEN <<ContractAddress[name], name>>
    ELSE <<Null, Null>>

\* ------------------------------------------------------------ handle cache

\* A variant of useContract that looks in the cache before it checks the
\* connection.
useContract_CacheFirst(cache, n, provider, addr, abi, signer) ==
  IF addr \in CacheKeys /\ cache[addr] # NoContract
    THEN [ret |-> cache[addr], cache |-> cache, created |-> n]
  ELSE IF Falsy(addr) \/ provider = Null
    THEN [ret |-> NoContract, cache |-> cache, created |-> n]
  ELSE LET contract == [address |-> addr, abi |-> abi, signer |-> signer,
                        provider |-> provider, serial |-> n + 1]
       IN [ret |-> contract,
           cache |-> [cache EXCEPT ![addr] = contract],
           created |-> n + 1]

\* A variant of useContract that keys the cache lookup on the interface and
\* the mode as well as on the addr.
useContract_KeyAll(cache, n, provider, addr, abi, signer) ==
  IF Falsy(addr) \/ provider = Null
    THEN [ret |-> NoContract, cache |-> cache, created |-> n]
  ELSE IF /\ cache[addr] # NoContract
          /\ cache[addr].abi = abi
          /\ cache[addr].signer = signer
    THEN [ret |-> cache[addr], cache |-> cache, created |-> n]
  ELSE LET contract == [address |-> addr, abi |-> abi, signer |-> signer,
                        provider |-> provider, serial |-> n + 1]
       IN [ret |-> contract,
           cache |-> [cache EXCEPT ![addr] = contract],
           created |-> n + 1]

\* useContract(addr, abi, signer) under connection `provider`, with the
\* cache `cache` and `n` handles constructed so far: what it returns and the
\* cache it leaves.
useContract(cache, n, provider, addr, abi, signer) ==
  IF Falsy(addr) \/ provider = Null
    THEN [ret |-> NoContract, cache |-> cache, created |-> n]
  ELSE IF cache[addr] # NoContract
    THEN [ret |-> cache[addr], cache |-> cache, created |-> n]
  ELSE LET contract == [address |-> addr, abi |-> abi, signer |-> signer,
                        provider |-> provider, serial |-> n + 1]
       IN [ret |-> contract,
           cache |-> [cache EXCEPT ![addr] = contract],
           created |-> n + 1]

\* useKnownContract(name), always in signer mode in this file.
useKnownContract(cache, n, provider, name) ==
  useContract(cache, n, provider, getKnownContract(name)[1],
              getKnownContract(name)[2], TRUE)

\* -------------------------------------------------------------- bounds

\* Balance queries of a useTokenBalance component in flight at once.
MaxInFlight == 2
\* Treasury balance queries of a useBondingCurvePrice component in flight at once.
MaxTreasuryInFlight == 1
\* Price computations (cancelled ones included) in flight at once.
MaxChains == 2
\* Failures of the price requests in the retry scenario.
MaxFails == 2

\* Values the chain may answer to balanceOf, for a useTokenBalance component
\* and for the treasury of a useBondingCurvePrice component, and to totalSupply.
HolderBalances == {5, 7}
TreasuryBalances == {5}
Supplies == {100}
\* Amounts the caller may ask a quote for.
Amounts == {1, 2}

\* ---------------------------------------------------------- balance tracker

\* bigNum(-1), the balance not yet known.
UnknownBalance == -1

\* The explicit address useBondingCurvePrice passes to its tracker.
TreasuryAddress == getKnownContract("BONDING_CURVE_TREASURY")[1]

\* The tracker's state as one record; `set` tells whether setBalance was
\* called (React then renders again with the new balance object).
TrackerState ==
  [balance |-> balance, ref |-> cancelBalanceUpdate, fetches |-> fetches,
   set |-> FALSE]

\* A fetch in flight: the address queried, the value the chain answers,
\* the closure variable `cancelled`, and whether it is the query issued last.
\* Fetches that agree on all four behave alike and are kept once.
newFetch(acct, addr, value) ==
  [target |-> IF Falsy(addr) THEN acct ELSE addr, value |-> value,
   cancelled |-> FALSE, last |-> TRUE]

\* cancelBalanceUpdate.current(), if set: the closure was made by the call
\* that issued the last query, and sets that query's `cancelled`.
cancelFetch(fs, ref) ==
  IF ref = Null
    THEN fs
    ELSE {IF f.last THEN [f EXCEPT !.cancelled = TRUE] ELSE f : f \in fs}

\* The fetches after one more query was issued.
superseded(fs) == {[f EXCEPT !.last = FALSE] : f \in fs}

\* A variant of updateBalance that does not cancel the fetch in flight.
updateBalance_NoCancel(t, acct, addr, contract, value) ==
  IF (Falsy(acct) /\ Falsy(addr)) \/ contract = NoContract
    THEN [t EXCEPT !.balance = UnknownBalance, !.ref = Null, !.set = TRUE]
    ELSE [t EXCEPT !.ref = "cancel",
                   !.fetches = superseded(t.fetches)
                                 \cup {newFetch(acct, addr, value)}]

\* A variant of updateBalance that keeps the previous balance when there is
\* nothing to query.
updateBalance_KeepBalance(t, acct, addr, contract, value) ==
  IF (Falsy(acct) /\ Falsy(addr)) \/ contract = NoContract
    THEN [t EXCEPT !.ref = Null, !.fetches = cancelFetch(t.fetches, t.ref)]
    ELSE [t EXCEPT !.ref = "cancel",
                   !.fetches = superseded(cancelFetch(t.fetches, t.ref))
                                 \cup {newFetch(acct, addr, value)}]

\* updateBalance() of a render whose account, address and token handle are
\* acct, addr and contract; `value` is what the chain will answer to the
\* balanceOf query, if one is issued.
updateBalance(t, acct, addr, contract, value) ==
  IF (Falsy(acct) /\ Falsy(addr)) \/ contract = NoContract
    THEN [t EXCEPT !.balance = UnknownBalance, !.ref = Null,
                   !.fetches = cancelFetch(t.fetches, t.ref), !.set = TRUE]
    ELSE [t EXCEPT !.ref = "cancel",
                   !.fetches = superseded(cancelFetch(t.fetches, t.ref))
                                 \cup {newFetch(acct, addr, value)}]

\* The listener the tracker's effect registers: none without a target or a
\* handle, else onTransfer on the token handle, closed over account and address.
trackerListeners(acct, addr, contract) ==
  IF (Falsy(acct) /\ Falsy(addr)) \/ contract = NoContract
    THEN {}
    ELSE {[contract |-> contract, account |-> acct, address |-> addr]}

\* A variant of the effect's cleanup that leaves the listener registered.
trackerCleanup_Keep(ls, acct, addr, contract) == ls

\* The cleanup of the tracker's effect: removeListener('Transfer', onTransfer)
\* on the handle of the render that registered it.
trackerCleanup(ls, acct, addr, contract) ==
  ls \ trackerListeners(acct, addr, contract)

\* A variant of onTransfer's test that refreshes on every Transfer event.
onTransfer_Always(l, from, to) == TRUE

\* onTransfer's test: does listener l refresh on Transfer(from, to)?
onTransfer(l, from, to) ==
  \/ from = l.account
  \/ to = l.account
  \/ from = l.address
  \/ to = l.address

\* A variant of the continuation that never applies the result.
balanceThen_Drop(t, f) ==
  [t EXCEPT !.fetches = t.fetches \ {f}]

\* The continuation of balanceOf(...).then: setBalance unless cancelled.
balanceThen(t, f) ==
  IF ~f.cancelled
    THEN [t EXCEPT !.fetches = t.fetches \ {f}, !.balance = f.value, !.set = TRUE]
    ELSE [t EXCEPT !.fetches = t.fetches \ {f}]

\* A variant of the rejection that resets the balance to the sentinel.
balanceCatch_Reset(t, f) ==
  [t EXCEPT !.fetches = t.fetches \ {f}, !.balance = UnknownBalance, !.set = TRUE]

\* balanceOf(...) rejects: the promise has no rejection handler, so nothing
\* runs and the tracker keeps its state.
balanceCatch(t, f) ==
  [t EXCEPT !.fetches = t.fetches \ {f}]

\* ------------------------------------------------------------- price oracle

\* bigNum(-1), the price not yet known.
UnknownPrice == <<-1>>

\* The two-entry table of connector weights.
connectorWeights ==
  [MAINNET_CONNECTOR_WEIGHT |-> MAINNET_CONNECTOR_WEIGHT,
   RINKEBY_CONNECTOR_WEIGHT |-> RINKEBY_CONNECTOR_WEIGHT]

\* A variant of getConnectorWeight that takes the testnet weight for chain
\* '4' alone.
getConnectorWeight_TestnetByName ==
  connectorWeights[IF chainId = "4" THEN "RINKEBY_CONNECTOR_WEIGHT"
                                    ELSE "MAINNET_CONNECTOR_WEIGHT"]

\* getConnectorWeight(): the mainnet weight for chain '1', else the testnet one.
getConnectorWeight ==
  connectorWeights[IF chainId = "1" THEN "MAINNET_CONNECTOR_WEIGHT"
                                    ELSE "RINKEBY_CONNECTOR_WEIGHT"]

\* What the formula contract returns, kept symbolic: the function called and
\* its four arguments.
Quote(c) ==
  <<IF c.forwards THEN "calculatePurchaseReturn" ELSE "calculateSaleReturn",
    c.supply, c.balance, c.weight, c.amount>>

OracleState == [loading |-> loading, price |-> price, chains |-> chains]

\* A getSalePrice chain of one effect: the closure variable `cancelled`, where
\* it stands ("supply": totalSupply in flight, "formula": the formula call in
\* flight, "timer": the retry timer pending) and the values it closed over.
\* Cancelled chains that agree on everything behave alike and are kept once.
newChain(bal, am, fw) ==
  [cancelled |-> FALSE, phase |-> "supply", supply |-> 0, balance |-> bal,
   amount |-> am, forwards |-> fw, weight |-> getConnectorWeight]

\* A variant of the effect's cleanup that leaves the retry timer pending.
priceCleanup_KeepTimer(cs) ==
  {[c EXCEPT !.cancelled = TRUE] : c \in cs}

\* A variant of the effect's cleanup that clears the timer but does not set
\* `cancelled`.
priceCleanup_ClearOnly(cs) ==
  {d \in cs : d.cancelled \/ d.phase # "timer"}

\* The cleanup of the price effect: cancelled = true; clearTimeout(retryTimer).
\* Only the latest effect's chain is not cancelled yet.
priceCleanup(cs) ==
  {[c EXCEPT !.cancelled = TRUE] : c \in {d \in cs : d.cancelled \/ d.phase # "timer"}}

\* A variant of the price effect that starts getSalePrice() without testing
\* its inputs.
priceEffect_NoGuard(o, anj, bancor, bal, am, fw) ==
  [o EXCEPT !.loading = TRUE,
            !.chains = priceCleanup(o.chains) \cup {newChain(bal, am, fw)}]

\* The price effect re-run after one of its dependencies changed: the previous
\* effect's cleanup, then the effect's body, which starts getSalePrice() when
\* both handles exist and the treasury balance is settled.
priceEffect(o, anj, bancor, bal, am, fw) ==
  IF anj = NoContract \/ bal = UnknownBalance \/ bancor = NoContract
    THEN [o EXCEPT !.chains = priceCleanup(o.chains)]
    ELSE [o EXCEPT !.loading = TRUE,
                   !.chains = priceCleanup(o.chains) \cup {newChain(bal, am, fw)}]

\* The continuation of the formula call: setLoading(false), setPrice(salePrice)
\* unless cancelled.
priceThen(o, c) ==
  IF ~c.cancelled
    THEN [o EXCEPT !.chains = o.chains \ {c}, !.loading = FALSE, !.price = Quote(c)]
    ELSE [o EXCEPT !.chains = o.chains \ {c}]

\* A variant of the catch block that schedules no retry.
priceCatch_NoRetry(o, c) ==
  [o EXCEPT !.chains = o.chains \ {c}]

\* A variant of the catch block that resets loading before the retry delay.
priceCatch_ResetLoading(o, c) ==
  IF ~c.cancelled
    THEN [o EXCEPT !.loading = FALSE,
                   !.chains = (o.chains \ {c})
                                \cup {[c EXCEPT !.phase = "timer", !.supply = 0]}]
    ELSE [o EXCEPT !.chains = o.chains \ {c}]

\* A variant of the catch block that forgets the last quote.
priceCatch_ClearPrice(o, c) ==
  IF ~c.cancelled
    THEN [o EXCEPT !.price = UnknownPrice,
                   !.chains = (o.chains \ {c})
                                \cup {[c EXCEPT !.phase = "timer", !.supply = 0]}]
    ELSE [o EXCEPT !.chains = o.chains \ {c}]

\* The catch block: retryTimer = setTimeout(getSalePrice, RETRY_EVERY) unless
\* cancelled; it touches neither loading nor price.
priceCatch(o, c) ==
  IF ~c.cancelled
    THEN [o EXCEPT !.chains = (o.chains \ {c})
                                \cup {[c EXCEPT !.phase = "timer", !.supply = 0]}]
    ELSE [o EXCEPT !.chains = o.chains \ {c}]

\* The start of getSalePrice(), run by the retry timer: setLoading(true) and
\* the totalSupply() call.
getSalePrice(o, c) ==
  [o EXCEPT !.loading = TRUE,
            !.chains = (o.chains \ {c}) \cup {[c EXCEPT !.phase = "supply"]}]

\* What useBondingCurvePrice returns from a render: the loading and price of
\* the state the render reads.  The effect runs after the render returned.
useBondingCurvePrice == [loading |-> loading, price |-> price]

\* ------------------------------------------------------ renders and effects

\* What the chain may answer to a balance query of the mounted hook.
Balances == IF hook = "price" THEN TreasuryBalances ELSE HolderBalances

\* The balance queries the mounted hook may have in flight.
FetchBound == IF hook = "price" THEN MaxTreasuryInFlight ELSE MaxInFlight

\* A handle lookup the mounted hook does not make.
NoLookup(cache, n) == [ret |-> NoContract, cache |-> cache, created |-> n]

\* One render of the mounted hook with connection (p, a) and arguments
\* (ad, am, fw), and the effects React runs after it, in the order the hooks
\* are called: the handle lookups (all three for useBondingCurvePrice, the
\* token alone for useTokenBalance), the tracker's effect if account, address
\* or token handle changed (the previous listener removed, updateBalance(),
\* the new listener registered), the price effect if one of its dependencies
\* changed, and, when the tracker's effect called setBalance, the render that
\* follows it with the new balance object, which re-runs the price effect.
Render(p, a, ad, am, fw, v) ==
  LET k1 == IF hook = "price"
              THEN useKnownContract(contractsCache, created, p, "TOKEN_ANJ")
              ELSE NoLookup(contractsCache, created)
      k2 == IF hook = "price"
              THEN useKnownContract(k1.cache, k1.created, p, "BANCOR_FORMULA")
              ELSE NoLookup(k1.cache, k1.created)
      k3 == useKnownContract(k2.cache, k2.created, p, "TOKEN_ANT")
      trackerChanged == a # account \/ ad # address \/ k3.ret # tokenContract
      t1 == IF trackerChanged
              THEN updateBalance(TrackerState, a, ad, k3.ret, v)
              ELSE TrackerState
      oracleChanged ==
        \/ am # amount
        \/ fw # forwards
        \/ k1.ret # anjContract
        \/ k2.ret # bancorContract
      o1 == IF hook = "price" /\ oracleChanged
              THEN priceEffect(OracleState, k1.ret, k2.ret, balance, am, fw)
              ELSE OracleState
      o2 == IF hook = "price" /\ t1.set
              THEN priceEffect(o1, k1.ret, k2.ret, t1.balance, am, fw)
              ELSE o1
  IN /\ Cardinality(t1.fetches) <= FetchBound
     /\ Cardinality(o2.chains) <= MaxChains
     /\ contractsCache' = k3.cache
     /\ created' = k3.created
     /\ anjContract' = k1.ret
     /\ bancorContract' = k2.ret
     /\ tokenContract' = k3.ret
     /\ balance' = t1.balance
     /\ cancelBalanceUpdate' = t1.ref
     /\ fetches' = t1.fetches
     /\ listeners' = IF trackerChanged
                       THEN trackerCleanup(listeners, account, address, tokenContract)
                              \cup trackerListeners(a, ad, k3.ret)
                       ELSE listeners
     /\ loading' = o2.loading
     /\ price' = o2.price
     /\ chains' = o2.chains

\* The wallet connects, disconnects or switches account; a mounted component
\* renders again.
SetConnection(p, a) ==
  /\ <<p, a>> # <<ethersProvider, account>>
  /\ ethersProvider' = p
  /\ account' = a
  /\ IF hook # "none"
       THEN \E v \in Balances : Render(p, a, address, amount, forwards, v)
       ELSE UNCHANGED <<cacheVars, trackerVars, oracleVars>>
  /\ UNCHANGED <<missing, chainId, ret, hook, argVars, failsLeft, txVars>>

\* The component passes another explicit address to useTokenBalance.
SetAddress(ad) ==
  /\ hook = "balance"
  /\ ad # address
  /\ address' = ad
  /\ \E v \in Balances :
       Render(ethersProvider, account, ad, amount, forwards, v)
  /\ UNCHANGED <<missing, chainId, connVars, ret, hook, amount, forwards,
                 failsLeft, txVars>>

\* The caller asks a quote for another amount.
SetAmount(am) ==
  /\ hook = "price"
  /\ am # amount
  /\ amount' = am
  /\ \E v \in Balances :
       Render(ethersProvider, account, address, am, forwards, v)
  /\ UNCHANGED <<missing, chainId, connVars, ret, hook, address, forwards,
                 failsLeft, txVars>>

\* The caller asks a quote for the other direction.
SetForwards(fw) ==
  /\ hook = "price"
  /\ fw # forwards
  /\ forwards' = fw
  /\ \E v \in Balances :
       Render(ethersProvider, account, address, amount, fw, v)
  /\ UNCHANGED <<missing, chainId, connVars, ret, hook, address, amount,
                 failsLeft, txVars>>

\* The tracker's state t after a callback, and the render that follows a
\* setBalance call: the balance is a new object, so the price effect re-runs.
AfterTracker(t) ==
  LET o == IF t.set /\ hook = "price"
             THEN priceEffect(OracleState, anjContract, bancorContract,
                              t.balance, amount, forwards)
             ELSE OracleState
  IN /\ Cardinality(t.fetches) <= FetchBound
     /\ Cardinality(o.chains) <= MaxChains
     /\ balance' = t.balance
     /\ cancelBalanceUpdate' = t.ref
     /\ fetches' = t.fetches
     /\ loading' = o.loading
     /\ price' = o.price
     /\ chains' = o.chains
     /\ UNCHANGED <<tokenContract, listeners, anjContract, bancorContract>>

\* The token emits Transfer(from, to, value); the registered listener runs.
Transfer(from, to) ==
  /\ \E l \in listeners :
       IF onTransfer(l, from, to)
         THEN \E v \in Balances :
                AfterTracker(updateBalance(TrackerState, l.account, l.address,
                                           l.contract, v))
         ELSE UNCHANGED <<trackerVars, oracleVars>>
  /\ UNCHANGED <<missing, chainId, connVars, cacheVars, ret, hook, argVars,
                 failsLeft, txVars>>

\* A balanceOf query resolves.
BalanceResolve(f) ==
  /\ f \in fetches
  /\ AfterTracker(balanceThen(TrackerState, f))
  /\ UNCHANGED <<missing, chainId, connVars, cacheVars, ret, hook, argVars,
                 failsLeft, txVars>>

\* A balanceOf query rejects: the promise has no rejection handler.
BalanceReject(f) ==
  /\ f \in fetches
  /\ AfterTracker(balanceCatch(TrackerState, f))
  /\ UNCHANGED <<missing, chainId, connVars, cacheVars, ret, hook, argVars,
                 failsLeft, txVars>>

\* The oracle's state after a step of one of its chains.
AfterOracle(o) ==
  /\ loading' = o.loading
  /\ price' = o.price
  /\ chains' = o.chains
  /\ UNCHANGED <<missing, chainId, connVars, cacheVars, ret, hook, argVars,
                 trackerVars, anjContract, bancorContract, txVars>>

\* totalSupply() resolves with s: getSalePrice calls the formula contract.
SupplyResolve(c, s) ==
  /\ c \in chains
  /\ c.phase = "supply"
  /\ AfterOracle([OracleState EXCEPT
       !.chains = (chains \ {c}) \cup {[c EXCEPT !.phase = "formula", !.supply = s]}])
  /\ UNCHANGED failsLeft

\* calculatePurchaseReturn / calculateSaleReturn resolves.
FormulaResolve(c) ==
  /\ c \in chains
  /\ c.phase = "formula"
  /\ AfterOracle(priceThen(OracleState, c))
  /\ UNCHANGED failsLeft

\* totalSupply() or the formula call rejects.
RequestFail(c) ==
  /\ c \in chains
  /\ c.phase \in {"supply", "formula"}
  /\ failsLeft # 0
  /\ failsLeft' = IF failsLeft > 0 THEN failsLeft - 1 ELSE failsLeft
  /\ AfterOracle(priceCatch(OracleState, c))

\* The retry timer fires after RETRY_EVERY ms: getSalePrice() runs again.
TimerFire(c) ==
  /\ c \in chains
  /\ c.phase = "timer"
  /\ AfterOracle(getSalePrice(OracleState, c))
  /\ UNCHANGED failsLeft

\* The component unmounts: the cleanups of both effects run.
Unmount ==
  /\ hook # "none"
  /\ hook' = "none"
  /\ listeners' = trackerCleanup(listeners, account, address, tokenContract)
  /\ chains' = priceCleanup(chains)
  /\ UNCHANGED <<missing, chainId, connVars, cacheVars, ret, argVars,
                 tokenContract, balance, cancelBalanceUpdate, fetches,
                 anjContract, bancorContract, loading, price, failsLeft, txVars>>

\* ------------------------------------------------------------ specification

IdleCall == [pc |-> "idle"]

NoCall == [address |-> Null, abi |-> Null, signer |-> FALSE, provider |-> Null]

\* Before any connection: nothing cached, nothing in flight.
InitCommon ==
  /\ ethersProvider = Null
  /\ account = Null
  /\ contractsCache = [k \in CacheKeys |-> NoContract]
  /\ created = 0
  /\ ret = [call |-> NoCall, handle |-> NoContract,
            all |-> [k \in CacheKeys |-> {}]]
  /\ amount = 1
  /\ forwards = TRUE
  /\ tokenContract = NoContract
  /\ anjContract = NoContract
  /\ bancorContract = NoContract
  /\ balance = UnknownBalance
  /\ cancelBalanceUpdate = Null
  /\ fetches = {}
  /\ listeners = {}
  /\ loading = FALSE
  /\ price = UnknownPrice
  /\ chains = {}
  /\ failsLeft = -1
  /\ allow = IdleCall
  /\ order = IdleCall
  /\ claim = IdleCall

\* A component using useBondingCurvePrice has mounted with no connection.
Init ==
  /\ missing \in {"none", "TOKEN_ANT", "TOKEN_ANJ", "BANCOR_FORMULA",
                  "BONDING_CURVE_TREASURY"}
  /\ chainId = "1"
  /\ hook = "price"
  /\ address = TreasuryAddress
  /\ InitCommon

PriceParties == {"u1", ContractAddress["BONDING_CURVE_TREASURY"], Stranger}

Next ==
  \/ \E w \in {<<"p1", "u1">>, <<Null, Null>>} : SetConnection(w[1], w[2])
  \/ \E am \in Amounts : SetAmount(am)
  \/ \E fw \in BOOLEAN : SetForwards(fw)
  \/ \E from \in PriceParties, to \in PriceParties : Transfer(from, to)
  \/ \E f \in fetches : BalanceResolve(f)
  \/ \E f \in fetches : BalanceReject(f)
  \/ \E c \in chains, s \in Supplies : SupplyResolve(c, s)
  \/ \E c \in chains : FormulaResolve(c)
  \/ \E c \in chains : RequestFail(c)
  \/ \E c \in chains : TimerFire(c)
  \/ Unmount

Spec == Init /\ [][Next]_vars

\* A component using useTokenBalance('ANT', address) has mounted with no
\* connection.
InitBalance ==
  /\ missing \in {"none", "TOKEN_ANT"}
  /\ chainId = "1"
  /\ hook = "balance"
  /\ address = ""
  /\ InitCommon

BalanceParties == Accounts \cup {ContractAddress["BONDING_CURVE_TREASURY"], Stranger}

NextBalance ==
  \/ \E p \in {"p1", Null}, a \in Accounts \cup {Null} : SetConnection(p, a)
  \/ \E ad \in {"", ContractAddress["BONDING_CURVE_TREASURY"]} : SetAddress(ad)
  \/ \E from \in BalanceParties, to \in BalanceParties : Transfer(from, to)
  \/ \E f \in fetches : BalanceResolve(f)
  \/ \E f \in fetches : BalanceReject(f)
  \/ Unmount

SpecBalance == InitBalance /\ [][NextBalance]_vars

\* ------------------------------------------------- direct useContract calls

\* Some component calls useContract(addr, abi, signer) during a render.
GetHandle(addr, abi, signer) ==
  LET r == useContract(contractsCache, created, ethersProvider, addr, abi, signer)
  IN /\ contractsCache' = r.cache
     /\ created' = r.created
     /\ ret' = [call |-> [address |-> addr, abi |-> abi, signer |-> signer,
                          provider |-> ethersProvider],
                handle |-> r.ret,
                all |-> IF r.ret = NoContract
                          THEN ret.all
                          ELSE [ret.all EXCEPT ![addr] = @ \cup {r.ret}]]
     /\ UNCHANGED <<missing, chainId, connVars, hook, argVars, trackerVars,
                    oracleVars, failsLeft, txVars>>

\* No component is mounted; callers look handles up directly.
InitCache ==
  /\ missing = "none"
  /\ chainId = "1"
  /\ hook = "none"
  /\ address = ""
  /\ InitCommon

CallAddresses == {Null, "", ContractAddress["TOKEN_ANT"], ContractAddress["TOKEN_ANJ"]}

NextCache ==
  \/ \E p \in Providers \cup {Null}, a \in {"u1", Null} : SetConnection(p, a)
  \/ \E addr \in CallAddresses, abi \in Abis, signer \in BOOLEAN :
       GetHandle(addr, abi, signer)

SpecCache == InitCache /\ [][NextCache]_vars

\* -------------------------------------------------------- transaction flows

\* Amounts a caller approves or converts, allowances the token may report,
\* transaction hashes and the block numbers of mined transactions.
TxAmounts == {1, 2}
Allowances == {0, 1, 2, 3}
Hashes == {"0xh1"}
Blocks == {7, 8}

\* What getTransaction resolves with: null for an unknown hash, else the
\* transaction, whose blockNumber is null (0 here) while it is pending.
NoBlock == 0
Transactions ==
  {[found |-> FALSE, blockNumber |-> NoBlock]}
    \cup {[found |-> TRUE, blockNumber |-> b] : b \in Blocks \cup {NoBlock}}

\* One invocation is followed at a time: a flow starts when no other one is
\* under way, and the finished ones are forgotten.
Settled(r) == r.pc \in {"idle", "done"}

\* useAllowance's callback, up to its first await: false without the token
\* handle, else the allowance(account, marketMakerAddress) query.
ensureAllowance(antContract, acct, marketMakerAddress, am) ==
  IF antContract = NoContract
    THEN [pc |-> "done", contract |-> antContract, amount |-> am,
          account |-> acct, spender |-> marketMakerAddress, allowance |-> -1,
          calls |-> <<>>, result |-> "false"]
    ELSE [pc |-> "allowance", contract |-> antContract, amount |-> am,
          account |-> acct, spender |-> marketMakerAddress, allowance |-> -1,
          calls |-> <<[fn |-> "allowance", owner |-> acct,
                       spender |-> marketMakerAddress, amount |-> -1]>>,
          result |-> "none"]

\* A variant of the comparison that also approves when the allowance equals
\* the amount.
allowanceThen_Lte(r, v) ==
  IF v <= r.amount
    THEN [r EXCEPT !.pc = "approve", !.allowance = v,
                   !.calls = Append(@, [fn |-> "approve", owner |-> Null,
                                        spender |-> r.spender, amount |-> r.amount])]
    ELSE [r EXCEPT !.pc = "done", !.allowance = v, !.result = "undefined"]

\* The continuation of the allowance query, resolved with v: approve(spender,
\* amount) when allowance.lt(bigNum(amount)), else nothing (undefined).
allowanceThen(r, v) ==
  IF v < r.amount
    THEN [r EXCEPT !.pc = "approve", !.allowance = v,
                   !.calls = Append(@, [fn |-> "approve", owner |-> Null,
                                        spender |-> r.spender, amount |-> r.amount])]
    ELSE [r EXCEPT !.pc = "done", !.allowance = v, !.result = "undefined"]

\* A caller invokes the callback of useAllowance's latest render.
EnsureAllowance(am) ==
  LET k == useKnownContract(contractsCache, created, ethersProvider, "TOKEN_ANT")
  IN /\ Settled(allow) /\ Settled(order) /\ Settled(claim)
     /\ contractsCache' = k.cache
     /\ created' = k.created
     /\ allow' = ensureAllowance(k.ret, account, getKnownContract("MARKET_MAKER")[1], am)
     /\ order' = IdleCall
     /\ claim' = IdleCall
     /\ UNCHANGED <<missing, chainId, connVars, ret, hook, argVars, trackerVars,
                    oracleVars, failsLeft>>

\* The flows leave everything but their own invocation alone.
TxFrame ==
  UNCHANGED <<missing, chainId, connVars, cacheVars, ret, hook, argVars,
              trackerVars, oracleVars, failsLeft>>

AllowanceResolve(v) ==
  /\ allow.pc = "allowance"
  /\ allow' = allowanceThen(allow, v)
  /\ UNCHANGED <<order, claim>>
  /\ TxFrame

AllowanceReject ==
  /\ allow.pc = "allowance"
  /\ allow' = [allow EXCEPT !.pc = "done", !.result = "rejected"]
  /\ UNCHANGED <<order, claim>>
  /\ TxFrame

\* approve(...) resolves with the transaction, which the callback returns.
ApproveResolve ==
  /\ allow.pc = "approve"
  /\ allow' = [allow EXCEPT !.pc = "done", !.result = "tx"]
  /\ UNCHANGED <<order, claim>>
  /\ TxFrame

ApproveReject ==
  /\ allow.pc = "approve"
  /\ allow' = [allow EXCEPT !.pc = "done", !.result = "rejected"]
  /\ UNCHANGED <<order, claim>>
  /\ TxFrame

\* useOpenOrder's callback, up to its await: false without the fundraising
\* handle, else openBuyOrder or openSellOrder with its gas limit.
openOrder(fundraisingContract, antAddress, am, toAnj) ==
  IF fundraisingContract = NoContract
    THEN [pc |-> "done", contract |-> fundraisingContract, calls |-> <<>>,
          result |-> "false"]
    ELSE [pc |-> "submit", contract |-> fundraisingContract,
          calls |-> <<[fn |-> IF toAnj THEN "openBuyOrder" ELSE "openSellOrder",
                       token |-> antAddress, amount |-> am,
                       gasLimit |-> IF toAnj THEN 650000 ELSE 850000]>>,
          result |-> "none"]

OpenOrder(am, toAnj) ==
  LET k == useKnownContract(contractsCache, created, ethersProvider, "FUNDRAISING")
  IN /\ Settled(allow) /\ Settled(order) /\ Settled(claim)
     /\ contractsCache' = k.cache
     /\ created' = k.created
     /\ order' = openOrder(k.ret, getKnownContract("TOKEN_ANT")[1], am, toAnj)
     /\ allow' = IdleCall
     /\ claim' = IdleCall
     /\ UNCHANGED <<missing, chainId, connVars, ret, hook, argVars, trackerVars,
                    oracleVars, failsLeft>>

OrderResolve ==
  /\ order.pc = "submit"
  /\ order' = [order EXCEPT !.pc = "done", !.result = "tx"]
  /\ UNCHANGED <<allow, claim>>
  /\ TxFrame

OrderReject ==
  /\ order.pc = "submit"
  /\ order' = [order EXCEPT !.pc = "done", !.result = "rejected"]
  /\ UNCHANGED <<allow, claim>>
  /\ TxFrame

\* useClaimOrder's callback, up to its first await: the call of
\* ethersProvider.getTransaction, a TypeError when ethersProvider is null.
claimOrder(provider, fundraisingContract, acct, antAddress, hash, toAnj) ==
  IF provider = Null
    THEN [pc |-> "done", hash |-> hash, toAnj |-> toAnj, account |-> acct,
          contract |-> fundraisingContract, token |-> antAddress,
          calls |-> <<>>, result |-> "TypeError: provider"]
    ELSE [pc |-> "lookup", hash |-> hash, toAnj |-> toAnj, account |-> acct,
          contract |-> fundraisingContract, token |-> antAddress,
          calls |-> <<[fn |-> "getTransaction", hash |-> hash, account |-> Null,
                       batchId |-> NoBlock, token |-> Null]>>,
          result |-> "none"]

\* A variant of the continuation that submits a buy claim whatever the
\* direction.
claimThen_BuyOnly(r, tx) ==
  IF ~tx.found
    THEN [r EXCEPT !.pc = "done", !.result = "TypeError: transaction"]
  ELSE IF r.contract = NoContract
    THEN [r EXCEPT !.pc = "done", !.result = "TypeError: contract"]
  ELSE [r EXCEPT !.pc = "claim",
                 !.calls = Append(@, [fn |-> "claimBuyOrder",
                                      hash |-> Null, account |-> r.account,
                                      batchId |-> tx.blockNumber,
                                      token |-> r.token])]

\* The continuation of getTransaction, resolved with tx: destructuring null
\* throws; then claimBuyOrder or claimSellOrder is called on the fundraising
\* handle, a TypeError when the handle is null.
claimThen(r, tx) ==
  IF ~tx.found
    THEN [r EXCEPT !.pc = "done", !.result = "TypeError: transaction"]
  ELSE IF r.contract = NoContract
    THEN [r EXCEPT !.pc = "done", !.result = "TypeError: contract"]
  ELSE [r EXCEPT !.pc = "claim",
                 !.calls = Append(@, [fn |-> IF r.toAnj THEN "claimBuyOrder"
                                                        ELSE "claimSellOrder",
                                      hash |-> Null, account |-> r.account,
                                      batchId |-> tx.blockNumber,
                                      token |-> r.token])]

ClaimOrder(hash, toAnj) ==
  LET k == useKnownContract(contractsCache, created, ethersProvider, "FUNDRAISING")
  IN /\ Settled(allow) /\ Settled(order) /\ Settled(claim)
     /\ contractsCache' = k.cache
     /\ created' = k.created
     /\ claim' = claimOrder(ethersProvider, k.ret, account,
                            getKnownContract("TOKEN_ANT")[1], hash, toAnj)
     /\ allow' = IdleCall
     /\ order' = IdleCall
     /\ UNCHANGED <<missing, chainId, connVars, ret, hook, argVars, trackerVars,
                    oracleVars, failsLeft>>

LookupResolve(tx) ==
  /\ claim.pc = "lookup"
  /\ claim' = claimThen(claim, tx)
  /\ UNCHANGED <<allow, order>>
  /\ TxFrame

LookupReject ==
  /\ claim.pc = "lookup"
  /\ claim' = [claim EXCEPT !.pc = "done", !.result = "rejected"]
  /\ UNCHANGED <<allow, order>>
  /\ TxFrame

ClaimResolve ==
  /\ claim.pc = "claim"
  /\ claim' = [claim EXCEPT !.pc = "done", !.result = "tx"]
  /\ UNCHANGED <<allow, order>>
  /\ TxFrame

ClaimReject ==
  /\ claim.pc = "claim"
  /\ claim' = [claim EXCEPT !.pc = "done", !.result = "rejected"]
  /\ UNCHANGED <<allow, order>>
  /\ TxFrame

\* No component with a balance or price hook is mounted; callers run the flows.
InitTx ==
  /\ missing \in {"none", "TOKEN_ANT", "MARKET_MAKER", "FUNDRAISING"}
  /\ chainId = "1"
  /\ hook = "none"
  /\ address = ""
  /\ InitCommon

NextTx ==
  \/ \E p \in {"p1", Null}, a \in {"u1", Null} : SetConnection(p, a)
  \/ \E am \in TxAmounts : EnsureAllowance(am)
  \/ \E v \in Allowances : AllowanceResolve(v)
  \/ AllowanceReject
  \/ ApproveResolve
  \/ ApproveReject
  \/ \E am \in TxAmounts, toAnj \in BOOLEAN : OpenOrder(am, toAnj)
  \/ OrderResolve
  \/ OrderReject
  \/ \E h \in Hashes, toAnj \in BOOLEAN : ClaimOrder(h, toAnj)
  \/ \E tx \in Transactions : LookupResolve(tx)
  \/ LookupReject
  \/ ClaimResolve
  \/ ClaimReject

SpecTx == InitTx /\ [][NextTx]_vars

\* ------------------------------------------------------- the retry scenario

HandleOf(name, serial) ==
  [address |-> ContractAddress[name], abi |-> name, signer |-> TRUE,
   provider |-> "p1", serial |-> serial]

\* The state of a useBondingCurvePrice component right after its effect
\* started a quote computation: the wallet connected, the three handles
\* cached, the treasury balance settled, totalSupply() in flight.
RetryStart ==
  /\ ethersProvider = "p1"
  /\ account = "u1"
  /\ contractsCache =
       [k \in CacheKeys |->
          CASE k = ContractAddress["TOKEN_ANJ"] -> HandleOf("TOKEN_ANJ", 1)
            [] k = ContractAddress["BANCOR_FORMULA"] -> HandleOf("BANCOR_FORMULA", 2)
            [] k = ContractAddress["TOKEN_ANT"] -> HandleOf("TOKEN_ANT", 3)
            [] OTHER -> NoContract]
  /\ created = 3
  /\ ret = [call |-> NoCall, handle |-> NoContract,
            all |-> [k \in CacheKeys |-> {}]]
  /\ hook = "price"
  /\ address = TreasuryAddress
  /\ amount \in Amounts
  /\ forwards \in BOOLEAN
  /\ tokenContract = HandleOf("TOKEN_ANT", 3)
  /\ anjContract = HandleOf("TOKEN_ANJ", 1)
  /\ bancorContract = HandleOf("BANCOR_FORMULA", 2)
  /\ balance \in TreasuryBalances
  /\ cancelBalanceUpdate = "cancel"
  /\ fetches = {}
  /\ listeners = trackerListeners(account, address, tokenContract)
  /\ loading = TRUE
  /\ price = UnknownPrice
  /\ chains = {newChain(balance, amount, forwards)}
  /\ allow = IdleCall
  /\ order = IdleCall
  /\ claim = IdleCall

\* The inputs stay as they are and at most MaxFails requests fail.
InitRetry ==
  /\ missing \in {"none", "BONDING_CURVE_TREASURY"}
  /\ chainId \in {"1", "4", Null}
  /\ failsLeft = MaxFails
  /\ RetryStart

NextRetry ==
  \/ \E c \in chains, s \in Supplies : SupplyResolve(c, s)
  \/ \E c \in chains : FormulaResolve(c)
  \/ \E c \in chains : RequestFail(c)
  \/ \E c \in chains : TimerFire(c)

\* The event loop runs a due timer, and a request that does not fail resolves.
SpecRetry ==
  /\ InitRetry
  /\ [][NextRetry]_vars
  /\ WF_vars(\E c \in chains : TimerFire(c))
  /\ WF_vars(\E c \in chains, s \in Supplies : SupplyResolve(c, s))
  /\ WF_vars(\E c \in chains : FormulaResolve(c))

\* ------------------------------------------------------ the settle scenario

\* Queries an earlier refresh issued and a later one cancelled: for any
\* address tracked before, with any answer.
StaleFetches ==
  {[target |-> t, value |-> v, cancelled |-> TRUE, last |-> FALSE] :
     t \in Accounts \cup {ContractAddress["BONDING_CURVE_TREASURY"]},
     v \in HolderBalances}

\* The state of a useTokenBalance component right after its last refresh:
\* the wallet connected, the token handle cached, an account or an address
\* to track, the listener registered, the query of that refresh in flight
\* beside cancelled queries of earlier refreshes, and the balance whatever
\* those left.
SettleStart ==
  /\ ethersProvider = "p1"
  /\ account \in Accounts \cup {Null}
  /\ address \in {"", ContractAddress["BONDING_CURVE_TREASURY"]}
  /\ ~(Falsy(account) /\ Falsy(address))
  /\ contractsCache =
       [k \in CacheKeys |->
          IF k = ContractAddress["TOKEN_ANT"] THEN HandleOf("TOKEN_ANT", 1)
                                              ELSE NoContract]
  /\ created = 1
  /\ ret = [call |-> NoCall, handle |-> NoContract,
            all |-> [k \in CacheKeys |-> {}]]
  /\ hook = "balance"
  /\ amount = 1
  /\ forwards = TRUE
  /\ tokenContract = HandleOf("TOKEN_ANT", 1)
  /\ anjContract = NoContract
  /\ bancorContract = NoContract
  /\ balance \in {UnknownBalance} \cup HolderBalances
  /\ cancelBalanceUpdate = "cancel"
  /\ \E v \in HolderBalances, old \in SUBSET StaleFetches :
       /\ Cardinality(old) <= MaxInFlight - 1
       /\ fetches = old \cup {newFetch(account, address, v)}
  /\ listeners = trackerListeners(account, address, tokenContract)
  /\ loading = FALSE
  /\ price = UnknownPrice
  /\ chains = {}
  /\ allow = IdleCall
  /\ order = IdleCall
  /\ claim = IdleCall

\* From here on the dependencies stay, no Transfer event arrives and no query
\* fails.
InitSettle ==
  /\ missing = "none"
  /\ chainId = "1"
  /\ failsLeft = -1
  /\ SettleStart

NextSettle == \E f \in fetches : BalanceResolve(f)

\* Every query in flight resolves.
SpecSettle ==
  /\ InitSettle
  /\ [][NextSettle]_vars
  /\ WF_vars(NextSettle)

\* ------------------------------------------------------------------ claims

\* A step in which the balanceOf promise f settles (resolves or rejects).
Settles(f) == f \in fetches /\ fetches' = fetches \ {f}

\* C1: a balance query that a later query superseded never writes the
\* balance when it settles, in whatever order the two settle; and when the
\* query issued last settles, the balance is either left alone (the query
\* failed or was cancelled) or becomes that query's result.
C1_SupersededFetchDropped ==
  [][\A f \in fetches :
       Settles(f) =>
         IF f.last
           THEN balance' \in {balance, f.value}
           ELSE balance' = balance]_vars

\* C1 witness: the later query B has resolved and set the balance, and the
\* superseded query A, which will answer another value, is still in flight.
C1_Witness ==
  /\ hook = "balance"
  /\ balance # UnknownBalance
  /\ \E f \in fetches : ~f.last /\ f.value # balance
  /\ \A f \in fetches : ~f.last

\* The oracle has a request in flight whose result would be applied.
RequestOutstanding ==
  \E c \in chains : ~c.cancelled /\ c.phase \in {"supply", "formula"}

\* C2 as stated: whenever no non-cancelled price request is in flight,
\* loading is false (in particular during the delay before a retry).
C2_LoadingOnlyWhileOutstanding ==
  ~RequestOutstanding => loading = FALSE

\* C2 as amended: loading is true whenever a non-cancelled attempt is under
\* way, its request in flight or its retry timer pending, and loading goes
\* back to false only in the step in which a non-cancelled formula call
\* resolves.
C2_LoadingUntilSuccess ==
  /\ []((\E c \in chains : ~c.cancelled) => loading = TRUE)
  /\ [][(loading = TRUE /\ loading' = FALSE) =>
          \E c \in chains :
            /\ ~c.cancelled
            /\ c.phase = "formula"
            /\ chains' = chains \ {c}]_vars

\* C2 witness: the delay between a failed attempt and its retry, loading on.
C2_Witness ==
  /\ loading = TRUE
  /\ \E c \in chains : ~c.cancelled /\ c.phase = "timer"
  /\ ~RequestOutstanding

\* C3: the only attempt not cancelled is the one started under the current
\* amount, direction, treasury balance, connector weight and handles; a
\* cancelled attempt has no retry timer pending; and a step of a cancelled
\* attempt (its request resolving or failing) changes neither price nor
\* loading.
C3_StaleAttemptCancelled ==
  /\ [](\A c \in chains :
          /\ ~c.cancelled =>
               /\ hook = "price"
               /\ c.amount = amount
               /\ c.forwards = forwards
               /\ c.balance = balance
               /\ c.weight = getConnectorWeight
               /\ anjContract # NoContract
               /\ bancorContract # NoContract
          /\ c.cancelled => c.phase # "timer")
  /\ [][\A c \in chains :
          (c.cancelled /\ c \notin chains') =>
            /\ loading' = loading
            /\ price' = price
            /\ \A d \in chains' \ chains : d.cancelled /\ d.phase = "formula"]_vars

\* C3 witness: an attempt started for other arguments is cancelled with its
\* formula call still in flight, beside the attempt for the current ones.
C3_Witness ==
  /\ \E c \in chains :
       /\ c.cancelled
       /\ c.phase = "formula"
       /\ (c.amount # amount \/ c.forwards # forwards)
  /\ \E d \in chains : ~d.cancelled

\* The quotes the formula may return for the current inputs.
CurrentQuotes ==
  {Quote([newChain(balance, amount, forwards) EXCEPT !.supply = s]) : s \in Supplies}

\* C4: with the inputs unchanged and finitely many failures, the oracle ends
\* with no attempt left, loading false and price the quote of the current
\* inputs; and price changes only in the step in which the non-cancelled
\* formula call resolves, to the value that call returned.
C4_RetryConverges ==
  /\ <>[](chains = {} /\ loading = FALSE /\ price \in CurrentQuotes)
  /\ [][price' # price =>
          \E c \in chains :
            /\ ~c.cancelled
            /\ c.phase = "formula"
            /\ price' = Quote(c)
            /\ loading' = FALSE]_vars

\* C4 witness: two failures, then the success.
C4_Witness ==
  /\ failsLeft = 0
  /\ chains = {}
  /\ loading = FALSE
  /\ price \in CurrentQuotes

\* C5: all handles ever returned for one address are the same object; one
\* handle was constructed per cached address; and a cache entry, once
\* created, is never replaced or removed.
C5_OneHandlePerAddress ==
  /\ [](/\ \A k \in CacheKeys : Cardinality(ret.all[k]) <= 1
        /\ \A k \in CacheKeys :
             contractsCache[k] # NoContract => contractsCache[k].address = k
        /\ created = Cardinality({k \in CacheKeys : contractsCache[k] # NoContract}))
  /\ [][\A k \in CacheKeys :
          contractsCache[k] # NoContract => contractsCache'[k] = contractsCache[k]]_vars

\* C5 witness: a call got the handle made earlier under another connection
\* object, for another interface and the other mode.
C5_Witness ==
  /\ ret.handle # NoContract
  /\ ret.handle.abi # ret.call.abi
  /\ ret.handle.signer # ret.call.signer
  /\ ret.handle.provider # ret.call.provider

\* C6: a call made without a connection or without an address returned
\* null, and the step of such a call leaves the cache as it was.
C6_NullWithoutConnection ==
  /\ [](Falsy(ret.call.address) \/ ret.call.provider = Null
          => ret.handle = NoContract)
  /\ [][(ret' # ret /\ (Falsy(ret'.call.address) \/ ret'.call.provider = Null))
          => UNCHANGED cacheVars]_vars

\* C6 witness: null returned for an address whose handle is cached.
C6_Witness ==
  /\ ret.call.address \in CacheKeys
  /\ contractsCache[ret.call.address] # NoContract
  /\ ret.call.provider = Null
  /\ ret.handle = NoContract

\* The mounted tracker has nothing to query.
NoTarget == (Falsy(account) /\ Falsy(address)) \/ tokenContract = NoContract

\* C7: while the mounted tracker has no account and no address, or no token
\* handle, its balance is the sentinel and every query still in flight is
\* cancelled (so none was issued and none can overwrite the sentinel).
C7_SentinelWithoutTarget ==
  (hook # "none" /\ NoTarget) =>
    /\ balance = UnknownBalance
    /\ \A f \in fetches : f.cancelled

\* C7 witness: the refresh found a query in flight and cancelled it.
C7_Witness ==
  /\ hook = "balance"
  /\ NoTarget
  /\ \E f \in fetches : f.last /\ f.cancelled

\* The address whose balance the tracker queries.
Tracked == IF Falsy(address) THEN account ELSE address

\* C8 as stated: a Transfer whose sender and receiver both differ from the
\* address queried leaves the tracker as it was.
C8_UntrackedTransferIgnored ==
  [][\A from \in BalanceParties, to \in BalanceParties :
       (from # Tracked /\ to # Tracked /\ Transfer(from, to))
         => UNCHANGED trackerVars]_vars

\* C8 as amended: a Transfer whose sender and receiver both differ from the
\* connected account and from the explicit address leaves the tracker as it
\* was: no query issued, no fetch cancelled, the balance unchanged.
C8_ForeignTransferIgnored ==
  [][\A from \in BalanceParties, to \in BalanceParties :
       (/\ from \notin {account, address}
        /\ to \notin {account, address}
        /\ Transfer(from, to))
         => UNCHANGED trackerVars]_vars

\* C8 witness: a listener is registered with both an account and an explicit
\* address, and a query that a refresh would cancel is in flight.
C8_Witness ==
  /\ listeners # {}
  /\ ~Falsy(account)
  /\ ~Falsy(address)
  /\ \E f \in fetches : ~f.cancelled

\* Calls on a contract handle among the calls of an invocation.
ContractCalls(r) ==
  {i \in 1..Len(r.calls) : r.calls[i].fn # "getTransaction"}

\* C9 (transaction flows): an invocation made without its contract handle
\* returns false (ensureAllowance, openOrder) or at least does not end in a
\* TypeError on the missing connection or handle (claimOrder), and calls no
\* contract.
C9_DegradesWithoutHandle ==
  /\ (allow.pc # "idle" /\ allow.contract = NoContract) =>
       allow.result = "false" /\ allow.calls = <<>>
  /\ (order.pc # "idle" /\ order.contract = NoContract) =>
       order.result = "false" /\ order.calls = <<>>
  /\ (claim.pc # "idle" /\ claim.contract = NoContract) =>
       /\ claim.result \notin {"TypeError: provider", "TypeError: contract"}
       /\ ContractCalls(claim) = {}

\* C9 (hooks): without its handles the tracker stays at the sentinel and the
\* oracle has no attempt that is not cancelled.
C9_HooksDegrade ==
  /\ (hook # "none" /\ tokenContract = NoContract) => balance = UnknownBalance
  /\ (hook = "price" /\ (anjContract = NoContract \/ bancorContract = NoContract))
       => \A c \in chains : c.cancelled

\* C10: ensureAllowance first queries allowance(account, spender); once the
\* query answered v it has issued exactly one approve(spender, amount) if
\* v < amount and no transaction if v >= amount, returning undefined.
C10_ApproveOnShortfall ==
  (allow.pc # "idle" /\ allow.contract # NoContract) =>
    LET query == [fn |-> "allowance", owner |-> allow.account,
                  spender |-> allow.spender, amount |-> -1]
        approval == [fn |-> "approve", owner |-> Null,
                     spender |-> allow.spender, amount |-> allow.amount]
    IN /\ Len(allow.calls) >= 1
       /\ allow.calls[1] = query
       /\ IF allow.allowance >= 0 /\ allow.allowance < allow.amount
            THEN allow.calls = <<query, approval>>
            ELSE allow.calls = <<query>>
       /\ (allow.allowance >= allow.amount) =>
            allow.pc = "done" /\ allow.result = "undefined"

\* C10 witness: the allowance equalled the amount and nothing was sent.
C10_Witness ==
  /\ allow.pc = "done"
  /\ allow.allowance = allow.amount
  /\ allow.calls = <<[fn |-> "allowance", owner |-> allow.account,
                      spender |-> allow.spender, amount |-> -1]>>

\* The getTransaction call of the running claimOrder invocation.
LookupCall ==
  [fn |-> "getTransaction", hash |-> claim.hash, account |-> Null,
   batchId |-> NoBlock, token |-> Null]

\* C11: a claimOrder invocation that has its connection and its fundraising
\* handle first calls getTransaction(hash) and nothing else; when the lookup
\* answers a transaction of block B it submits one claim, claimBuyOrder or
\* claimSellOrder by the direction, for (account, B, token); when the lookup
\* answers no transaction, or fails, the invocation ends in an error and no
\* claim was submitted.
C11_ClaimAfterLookup ==
  /\ []((claim.pc # "idle" /\ claim.contract # NoContract) =>
          /\ Len(claim.calls) \in {1, 2}
          /\ claim.calls[1] = LookupCall
          /\ claim.pc = "lookup" => Len(claim.calls) = 1
          /\ claim.pc = "claim" => Len(claim.calls) = 2
          /\ claim.result = "tx" => Len(claim.calls) = 2
          /\ Len(claim.calls) = 2 =>
               /\ claim.calls[2].fn =
                    (IF claim.toAnj THEN "claimBuyOrder" ELSE "claimSellOrder")
               /\ claim.calls[2].account = claim.account
               /\ claim.calls[2].token = claim.token)
  /\ [][(claim.pc = "lookup" /\ claim.contract # NoContract) =>
          /\ \A tx \in Transactions :
               LookupResolve(tx) =>
                 IF tx.found
                   THEN /\ Len(claim'.calls) = 2
                        /\ claim'.calls[2].batchId = tx.blockNumber
                        /\ claim'.pc = "claim"
                   ELSE /\ claim'.calls = claim.calls
                        /\ claim'.pc = "done"
                        /\ claim'.result = "TypeError: transaction"
          /\ LookupReject =>
               claim'.calls = claim.calls /\ claim'.result = "rejected"]_vars

\* C11 witness: a sell claim for the block of the looked-up transaction went
\* through.
C11_Witness ==
  /\ claim.pc = "done"
  /\ claim.result = "tx"
  /\ ~claim.toAnj
  /\ claim.calls = <<LookupCall,
                     [fn |-> "claimSellOrder", hash |-> Null, account |-> "u1",
                      batchId |-> 8, token |-> ContractAddress["TOKEN_ANT"]]>>

\* The weight the claim assigns to the chain identifier.
WeightOfChain == IF chainId = "1" THEN 250000 ELSE 33333

\* C12: the connector weight is 250000 exactly for chain '1' and 33333 for
\* every other identifier, a missing one included; the chain identifier does
\* not change; and every attempt, the first and each retry, passes that
\* weight to the formula, as does the quote that was applied.
C12_WeightByChain ==
  /\ [](/\ getConnectorWeight = WeightOfChain
        /\ \A c \in chains : c.weight = WeightOfChain /\ Quote(c)[4] = WeightOfChain
        /\ price # UnknownPrice => price[4] = WeightOfChain)
  /\ [][chainId' = chainId]_vars

\* C12 witness: with no chain identifier configured, a retry got its quote
\* with the testnet weight.
C12_Witness ==
  /\ chainId = Null
  /\ failsLeft < MaxFails
  /\ price # UnknownPrice
  /\ price[4] = 33333

\* C13: the tracker has at most one Transfer listener; while it is mounted
\* it has one exactly when it has a token handle and an account or address,
\* and that listener is registered on the handle the current connection
\* gives, closed over the current account and address (so the one of the
\* previous handle, account or address is gone); after the unmount it has
\* none.
C13_OneListener ==
  /\ Cardinality(listeners) <= 1
  /\ hook = "none" => listeners = {}
  /\ hook # "none" =>
       /\ tokenContract =
            useKnownContract(contractsCache, created, ethersProvider, "TOKEN_ANT").ret
       /\ listeners =
            IF NoTarget
              THEN {}
              ELSE {[contract |-> tokenContract, account |-> account,
                     address |-> address]}

\* C13 witness: the account changed while a query for the previous account
\* was in flight, and the one listener is the new account's.
C13_Witness ==
  /\ hook = "balance"
  /\ account = "u2"
  /\ \E f \in fetches : f.target = "u1"
  /\ listeners = {[contract |-> tokenContract, account |-> "u2", address |-> ""]}

\* C14: the step in which a request of a non-cancelled attempt fails leaves
\* price as it was and loading true, and leaves exactly one retry timer
\* pending, that of the failed attempt; the step in which that timer fires
\* starts the attempt again with the same inputs, loading still true; and
\* while a retry timer is pending loading is true.  Nothing in an attempt
\* counts its failures, so this holds for every failure in a row.
C14_FailureRetries ==
  /\ [](\A c \in chains : c.phase = "timer" => ~c.cancelled /\ loading = TRUE)
  /\ [][\A c \in chains :
          (~c.cancelled /\ RequestFail(c)) =>
            /\ price' = price
            /\ loading = TRUE /\ loading' = TRUE
            /\ chains' = (chains \ {c}) \cup {[c EXCEPT !.phase = "timer", !.supply = 0]}
            /\ Cardinality({d \in chains' : d.phase = "timer"}) = 1]_vars
  /\ [][\A c \in chains :
          TimerFire(c) =>
            /\ price' = price
            /\ loading' = TRUE
            /\ chains' = (chains \ {c}) \cup {[c EXCEPT !.phase = "supply"]}]_vars

\* C14 witness: an attempt failed after an earlier quote had been applied;
\* the quote is still there, loading is on and the retry is pending.
C14_Witness ==
  /\ price # UnknownPrice
  /\ loading = TRUE
  /\ \E c \in chains : ~c.cancelled /\ c.phase = "timer" /\ Quote([c EXCEPT !.supply = price[2]]) # price

\* The mounted oracle has both handles and a settled treasury balance.
InputsReady ==
  /\ hook = "price"
  /\ anjContract # NoContract
  /\ bancorContract # NoContract
  /\ balance # UnknownBalance

\* A step that starts an attempt: a new chain, not cancelled, with its
\* totalSupply() query in flight.
AttemptStarts == \E d \in chains' \ chains : ~d.cancelled /\ d.phase = "supply"

\* C15 as stated: in a step that ends with a handle missing or the treasury
\* balance at the sentinel, no totalSupply() query and no formula call is
\* issued and loading is not set to true.
C15_NoCallWhileNotReady ==
  [][~InputsReady' =>
       /\ ~AttemptStarts
       /\ ~(\E c \in chains : TimerFire(c))
       /\ ~(\E c \in chains, s \in Supplies : SupplyResolve(c, s))
       /\ ~(loading = FALSE /\ loading' = TRUE)]_vars

\* C15 as amended: while a handle is missing or the treasury balance is the
\* sentinel, no attempt starts, no retry timer fires and loading is not set
\* to true; the only call issued is the formula call of an attempt that was
\* cancelled with its totalSupply() query in flight.  Every attempt, hence
\* every formula call, carries a settled treasury balance, and an attempt
\* that is not cancelled carries the current one.
C15_ReadyAtStart ==
  /\ [](\A c \in chains :
          /\ c.balance # UnknownBalance
          /\ ~c.cancelled => InputsReady /\ c.balance = balance)
  /\ [][~InputsReady' =>
          /\ ~AttemptStarts
          /\ ~(\E c \in chains : TimerFire(c))
          /\ \A c \in chains, s \in Supplies : SupplyResolve(c, s) => c.cancelled
          /\ ~(loading = FALSE /\ loading' = TRUE)]_vars

\* C15 witness: the wallet disconnected during an attempt; the handles are
\* gone and the cancelled attempt has its formula call in flight.
C15_Witness ==
  /\ hook = "price"
  /\ anjContract = NoContract
  /\ balance = UnknownBalance
  /\ \E c \in chains : c.cancelled /\ c.phase = "formula"

\* A step in which account, address or token handle of the tracker change.
DependencyChange ==
  account' # account \/ address' # address \/ tokenContract' # tokenContract

\* A step in which a Transfer event reaches a listener that refreshes on it.
QualifyingTransfer ==
  \E l \in listeners, from \in BalanceParties, to \in BalanceParties :
    onTransfer(l, from, to) /\ Transfer(from, to)

\* C16: the step in which a balance query fails changes nothing of the
\* tracker but the set of queries in flight: the balance stays, no query is
\* issued, the cancel reference and the listener stay.  And while no query
\* that could be applied is in flight (as after the failure of the latest
\* one), the balance changes or a query is issued only in a step that
\* changes a dependency or delivers a qualifying Transfer event.
C16_FailedQueryIgnored ==
  /\ [][\A f \in fetches :
          BalanceReject(f) =>
            /\ balance' = balance
            /\ fetches' = fetches \ {f}
            /\ UNCHANGED <<cancelBalanceUpdate, listeners, tokenContract>>]_vars
  /\ [][((\A f \in fetches : f.cancelled)
           /\ (balance' # balance \/ \E g \in fetches' : ~g.cancelled))
          => (DependencyChange \/ QualifyingTransfer)]_vars

\* C16 witness: the only query of a tracker with a target failed; the
\* balance is still the sentinel and nothing is in flight.
C16_Witness ==
  /\ hook = "balance"
  /\ ~NoTarget
  /\ fetches = {}
  /\ balance = UnknownBalance

\* C17 (settled states): once the effects of a render have run, ready inputs
\* and loading false mean that price is the quote of a formula call made
\* with the current amount, direction, treasury balance and weight.
C17_SettledQuoteCurrent ==
  (InputsReady /\ loading = FALSE) => price \in CurrentQuotes

\* C17 as stated, for what the caller is given: the render that passes a
\* new amount or direction, the inputs being ready before and after, returns
\* either loading true or a price that is the sentinel or a quote of the new
\* amount and direction.
C17_NoStaleQuotePresented ==
  [][(/\ InputsReady
      /\ InputsReady'
      /\ (amount' # amount \/ forwards' # forwards)
      /\ useBondingCurvePrice.loading = FALSE)
       => useBondingCurvePrice.price \in {UnknownPrice} \cup CurrentQuotes']_vars

\* The attempt chains whose result would be applied.
LiveChains == {c \in chains : ~c.cancelled}

\* C18: at most one attempt chain is not cancelled; it has either its
\* request in flight or its retry timer pending; and no cancelled chain has
\* a retry timer, so at most one timer is pending at all.  (A new chain is
\* added only after all others were cancelled, so no two chains that are
\* not cancelled are ever merged into one record.)
C18_SingleChain ==
  /\ Cardinality(LiveChains) <= 1
  /\ \A c \in LiveChains : c.phase \in {"supply", "formula", "timer"}
  /\ Cardinality({c \in chains : c.phase = "timer"}) <= 1
  /\ \A c \in chains : c.phase = "timer" => c \in LiveChains
  /\ (\E c \in chains : c.phase = "timer") =>
       ~(\E d \in LiveChains : d.phase \in {"supply", "formula"})

\* C18 witness: the current attempt waits for its retry while the request of
\* an attempt cancelled by a dependency change is still in flight.
C18_Witness ==
  /\ \E c \in LiveChains : c.phase = "timer"
  /\ \E d \in chains : d.cancelled /\ d.phase \in {"supply", "formula"}

\* C19: after the unmount no step writes the balance; a query that was in
\* flight at the unmount is dropped when it resolves.
C19_NoWriteAfterTeardown ==
  [][hook = "none" => balance' = balance]_vars

\* C20: with the dependencies fixed, no further Transfer event and every
\* query resolving, the tracker ends with nothing in flight and the balance
\* equal to the answer of the query issued last, and stays there, whatever
\* the order in which that query and the cancelled earlier ones resolve.
C20_TrackerSettles ==
  /\ <>[](fetches = {} /\ balance # UnknownBalance)
  /\ \A v \in HolderBalances :
       (\E f \in fetches : f.last /\ ~f.cancelled /\ f.value = v) ~> [](balance = v)

\* C20 witness: all queries have resolved, a cancelled one after the latest
\* one, and the balance is a settled value.
C20_Witness ==
  /\ hook = "balance"
  /\ ~NoTarget
  /\ fetches = {}
  /\ balance \in HolderBalances

====
